---- MODULE Spec2Model ----
(***************************************************************************)
(* A model of train_optuna.py: the hyperparameter-search training script.  *)
(*                                                                         *)
(*  - Spec      the launch (one process, or one process per DDP rank) and  *)
(*              every trial's training loop: evaluation, checkpointing,    *)
(*              micro-steps with gradient synchronisation, optimizer step. *)
(*  - SpecRaise the same over a validation split that may be empty, where  *)
(*              the master's first evaluation raises.                      *)
(*  - SpecLr    get_lr, the cosine learning-rate schedule with warmup.     *)
(*  - SpecBatch load_wsi_features and get_batch, the bag sampler.          *)
(*                                                                         *)
(* Accuracies are counts of correct predictions (n_correct): the code      *)
(* divides every count by the same batch_size * eval_iters, so comparing   *)
(* counts is comparing accuracies. Learning rates are exact fractions of    *)
(* integers; floating-point rounding is not modelled.                      *)
(***************************************************************************)
EXTENDS Integers, Sequences, FiniteSets, TLC

\* ------------------------------------------------------------------ bounds
MaxRanks == 2
MaxTrials == 2
MaxIters == 2
MaxEvalInterval == 2
MaxGas == 2
MaxAcc == 1
MaxLr == 3
MaxWarmup == 2
MaxDecayIters == 4
MaxBatch == 2
MaxBlock == 2
MaxRows == 2

Procs == 0 .. (MaxRanks - 1)

VARIABLES
    cfg,            \* the configuration globals (lines 41-86), fixed at launch
    ckpt,           \* out_dir/ckpt.pt, the checkpoint init_from = 'resume' loads
    env,            \* env[p]: the RANK environment variable, <<>> when unset
    nprocs,         \* the number of processes of the launch
    val_slides,     \* the number of *.pt files under val_data_dir (line 137)
    outDir,         \* the run numbers n of the files out_dir/run_<n>_ckpt.pt
    saved,          \* saved[p]: the content of the file at out_file[p], {} if none
    pc,             \* pc[p]: where process p is
    ddp,            \* ddp[p]: line 417
    master_process, \* master_process[p]: lines 424, 428
    gas,            \* gradient_accumulation_steps[p], after line 430
    pg,             \* pg[p]: the process group: "none", "initialised", "destroyed"
    madeDir,        \* the processes that created out_dir (line 433)
    study,          \* the processes that created and optimise the study (448-452)
    trial_no,       \* trial_no[p]: the number of objective calls p has started
    out_file,       \* out_file[p]: <<run_no>>, or <<>> while the local is unbound
    iter_num,       \* iter_num[p]
    best_val_acc,   \* best_val_acc[p]
    micro_step,     \* micro_step[p]
    sync,           \* model.require_backward_grad_sync of p
    returned,       \* returned[p]: <<v>> once the current objective call has returned v
    arrived,        \* arrived[p]: synchronised backward passes p has entered
    \* ---- history of the current trial of p, read by the properties only
    steps,          \* optimizer steps
    fwd,            \* forward/backward passes
    syncs,          \* synchronised backward passes completed
    syncSteps,      \* micro-steps of the current iteration with sync enabled
    evals,          \* evaluations (estimate_loss calls)
    maxSeen,        \* the largest validation accuracy evaluated (0 before any)
    bestSetAt,      \* iter_num of the last assignment at line 332, -1 if none
    lastEval,       \* the last evaluation, {} before any
    lastWrite,      \* the last checkpoint write, {} before any
    \* ---- get_lr (SpecLr)
    lr_cfg,         \* learning_rate, min_lr, warmup_iters, lr_decay_iters
    lr_it,          \* the iteration number of the next get_lr call
    lr_out,         \* {[it, lr]}: the latest call and what it returned, {} before any
    lr_prev,        \* the call before it
    \* ---- load_wsi_features and get_batch (SpecBatch)
    data_dir,       \* the *.pt files of the split's directory, in glob's order
    batch_cfg,      \* batch_size, block_size
    data,           \* {load_wsi_features(data_dir)}, {} before the load
    batch           \* {the outcome of the latest get_batch}, {} before any

launchVars == <<cfg, ckpt, env, nprocs, val_slides>>
bootVars == <<ddp, master_process, gas, madeDir, study>>
loopVars == <<iter_num, best_val_acc, micro_step, sync>>
trainVars == <<cfg, ckpt, env, nprocs, val_slides, outDir, saved, pc, ddp, master_process, gas, pg,
               madeDir, study, trial_no, out_file, iter_num, best_val_acc, micro_step,
               sync, returned, arrived, steps, fwd, syncs, syncSteps, evals, maxSeen,
               bestSetAt, lastEval, lastWrite>>
lrVars == <<lr_cfg, lr_it, lr_out, lr_prev>>
batchVars == <<data_dir, batch_cfg, data, batch>>
histVars == <<steps, fwd, syncs, syncSteps, evals, maxSeen, bestSetAt, lastEval, lastWrite>>
vars == <<trainVars, lrVars, batchVars>>

Active == {p \in Procs : p < nprocs}

\* ---------------------------------------------------------------- helpers
Max(S) == CHOOSE x \in S : \A y \in S : y <= x
Min(S) == CHOOSE x \in S : \A y \in S : x <= y

\* os.environ.get('RANK', -1), then int(): line 417
RankOf(e) == IF e = <<>> THEN -1 ELSE e[1]

\* line 417: ddp = int(os.environ.get('RANK', -1)) != -1
\* (variant: 'RANK' in os.environ)
IsDdpWhenSet(e) == e # <<>>
IsDdp(e) == RankOf(e) # -1

\* lines 424, 428: master_process
\* (variant: every process takes itself for the master)
IsMasterAlways(e) == TRUE
IsMaster(e) == IF IsDdp(e) THEN RankOf(e) = 0 ELSE TRUE

\* line 430: gradient_accumulation_steps *= 8, without DDP only
EffectiveGas(e, g) == IF IsDdp(e) THEN g ELSE g * 8

\* lines 140-146: the run number of a trial's checkpoint file
RunNo(dir) == IF dir # {} THEN Max(dir) + 1 ELSE 0

\* lines 233-234, 278-279: iter_num and best_val_acc as the loop starts
InitialIter(c, ck) == IF c.init_from = "resume" THEN ck.iter_num ELSE 0
InitialBest(c, ck) == IF c.init_from = "resume" THEN ck.best_val_acc ELSE 0

\* line 319: iter_num % eval_interval == 0 and master_process
EvalDue(it, interval, master) == it % interval = 0 /\ master

\* line 331: losses['val_acc'] > best_val_acc or always_save_checkpoint
\* (variant: >= for >)
ImprovesOrEqual(acc, best, always) == acc >= best \/ always
Improves(acc, best, always) == acc > best \/ always

\* line 333: if iter_num > 0
\* (variant: iter_num > 1)
SavesAfterFirstStep(it) == it > 1
SavesAt(it) == it > 0

\* line 344: if iter_num == 0 and eval_only: break
EvalOnlyBreak(it, eval_only) == it = 0 /\ eval_only

\* line 355: require_backward_grad_sync = (micro_step == gradient_accumulation_steps - 1)
\* (variant: the flag left at DDP's default, set for every micro-step)
GradSyncEveryStep(ms, g) == TRUE
GradSync(ms, g) == ms = g - 1

\* the micro-steps from ms on that line 355 gives the sync flag
SyncStepsFrom(ms, g) == {m \in ms .. (g - 1) : GradSync(m, g)}

\* line 386: if iter_num > max_iters: break
LoopDone(it, max_iters) == it > max_iters

\* line 214: assert n_slides > 0, for the split get_batch is asked for
HasSlides(n_slides) == n_slides > 0

\* ------------------------------------------------------------------- Init
\* One process without RANK (or with RANK=-1), or torchrun's world of n ranks.
Launches ==
    { [n |-> 1, env |-> [p \in Procs |-> <<>>]],
      [n |-> 1, env |-> [p \in Procs |-> IF p = 0 THEN <<-1>> ELSE <<>>]] }
    \cup { [n |-> n, env |-> [p \in Procs |-> IF p < n THEN <<p>> ELSE <<>>]] :
           n \in 1 .. MaxRanks }

Configs ==
    [ always_save_checkpoint : BOOLEAN,
      eval_only : BOOLEAN,
      init_from : {"scratch", "resume"},
      eval_interval : {1, MaxEvalInterval},
      max_iters : 0 .. MaxIters,
      gradient_accumulation_steps : {1, MaxGas},
      n_trials : {MaxTrials} ]

Checkpoints == [iter_num : {0, 1, MaxIters}, best_val_acc : {0, MaxAcc}]

\* Before any process has run a line: what Init gives the training variables.
TrainIdle ==
    /\ ddp = [p \in Procs |-> FALSE]
    /\ master_process = [p \in Procs |-> FALSE]
    /\ gas = [p \in Procs |-> 0]
    /\ pg = [p \in Procs |-> "none"]
    /\ madeDir = {}
    /\ study = {}
    /\ trial_no = [p \in Procs |-> 0]
    /\ out_file = [p \in Procs |-> <<>>]
    /\ saved = [p \in Procs |-> {}]
    /\ iter_num = [p \in Procs |-> 0]
    /\ best_val_acc = [p \in Procs |-> 0]
    /\ micro_step = [p \in Procs |-> 0]
    /\ sync = [p \in Procs |-> FALSE]
    /\ returned = [p \in Procs |-> <<>>]
    /\ arrived = [p \in Procs |-> 0]
    /\ steps = [p \in Procs |-> 0]
    /\ fwd = [p \in Procs |-> 0]
    /\ syncs = [p \in Procs |-> 0]
    /\ syncSteps = [p \in Procs |-> {}]
    /\ evals = [p \in Procs |-> 0]
    /\ maxSeen = [p \in Procs |-> 0]
    /\ bestSetAt = [p \in Procs |-> -1]
    /\ lastEval = {}
    /\ lastWrite = {}

\* get_lr and the bag sampler, out of use
LrIdle ==
    /\ lr_cfg = [learning_rate |-> 0, min_lr |-> 0, warmup_iters |-> 0,
                 lr_decay_iters |-> 0]
    /\ lr_it = 0
    /\ lr_out = {}
    /\ lr_prev = {}

BatchIdle ==
    /\ data_dir = <<>>
    /\ batch_cfg = [batch_size |-> 0, block_size |-> 0]
    /\ data = {}
    /\ batch = {}

\* no training process launched
TrainOff ==
    /\ cfg = [always_save_checkpoint |-> FALSE, eval_only |-> FALSE,
              init_from |-> "scratch", eval_interval |-> 1, max_iters |-> 0,
              gradient_accumulation_steps |-> 1, n_trials |-> 0]
    /\ ckpt = [iter_num |-> 0, best_val_acc |-> 0]
    /\ nprocs = 0
    /\ val_slides = 0
    /\ env = [p \in Procs |-> <<>>]
    /\ outDir = {}
    /\ pc = [p \in Procs |-> "absent"]
    /\ TrainIdle

\* The launch of the training processes, whatever the validation split holds.
Launch ==
    /\ LrIdle
    /\ BatchIdle
    /\ cfg \in Configs
    /\ ckpt \in (IF cfg.init_from = "resume" THEN Checkpoints
                 ELSE {[iter_num |-> 0, best_val_acc |-> 0]})
    /\ \E l \in Launches : nprocs = l.n /\ env = l.env
    /\ outDir = {}
    /\ pc = [p \in Procs |-> IF p < nprocs THEN "boot" ELSE "absent"]
    /\ TrainIdle

\* a launch over a validation split that holds a slide
Init ==
    /\ Launch
    /\ val_slides = 1

\* ---------------------------------------------------------------- actions
\* lines 417-433: rank detection, process-group init, out_dir
Bootstrap(p) ==
    /\ pc[p] = "boot"
    /\ ddp' = [ddp EXCEPT ![p] = IsDdp(env[p])]
    /\ pg' = [pg EXCEPT ![p] = IF IsDdp(env[p]) THEN "initialised" ELSE @]
    /\ master_process' = [master_process EXCEPT ![p] = IsMaster(env[p])]
    /\ gas' = [gas EXCEPT ![p] = EffectiveGas(env[p], cfg.gradient_accumulation_steps)]
    /\ madeDir' = IF IsMaster(env[p]) THEN madeDir \cup {p} ELSE madeDir
    /\ pc' = [pc EXCEPT ![p] = "study"]
    /\ UNCHANGED <<lrVars, batchVars, launchVars, outDir, saved, study, trial_no, out_file, loopVars, returned,
                   arrived, histVars>>

\* lines 446-451: study = None; the master creates the study
SetupStudy(p) ==
    /\ pc[p] = "study"
    /\ study' = IF master_process[p] THEN study \cup {p} ELSE study
    /\ pc' = [pc EXCEPT ![p] = "trials"]
    /\ UNCHANGED <<lrVars, batchVars, launchVars, outDir, saved, ddp, master_process, gas, pg, madeDir, trial_no,
                   out_file, loopVars, returned, arrived, histVars>>

\* lines 452-456 and 132-148: the next objective call, up to suggest_params
StartTrial(p) ==
    /\ pc[p] = "trials"
    /\ trial_no[p] < cfg.n_trials
    /\ trial_no' = [trial_no EXCEPT ![p] = @ + 1]
    /\ out_file' = [out_file EXCEPT ![p] =
                        IF master_process[p] THEN <<RunNo(outDir)>> ELSE <<>>]
    /\ iter_num' = [iter_num EXCEPT ![p] = InitialIter(cfg, ckpt)]
    /\ best_val_acc' = [best_val_acc EXCEPT ![p] = InitialBest(cfg, ckpt)]
    /\ steps' = [steps EXCEPT ![p] = 0]
    /\ fwd' = [fwd EXCEPT ![p] = 0]
    /\ syncs' = [syncs EXCEPT ![p] = 0]
    /\ syncSteps' = [syncSteps EXCEPT ![p] = {}]
    /\ evals' = [evals EXCEPT ![p] = 0]
    /\ maxSeen' = [maxSeen EXCEPT ![p] = 0]
    /\ bestSetAt' = [bestSetAt EXCEPT ![p] = -1]
    /\ saved' = [saved EXCEPT ![p] = {}]
    /\ returned' = [returned EXCEPT ![p] = <<>>]
    /\ lastEval' = {e \in lastEval : e.proc # p}
    /\ lastWrite' = {w \in lastWrite : w.proc # p}
    /\ pc' = [pc EXCEPT ![p] = "suggest"]
    /\ UNCHANGED <<lrVars, batchVars, launchVars, outDir, bootVars, pg, micro_step, sync, arrived>>

\* lines 150-310: suggest_params and the model set-up. Under DDP the
\* TorchDistributedTrial takes every suggested value from rank 0 and the DDP
\* wrapper (line 304) synchronises the ranks' parameters: a rank gets past them
\* once every rank has entered the same objective call.
Suggest(p) ==
    /\ pc[p] = "suggest"
    /\ ddp[p] => \A q \in Active : trial_no[q] >= trial_no[p]
    /\ pc' = [pc EXCEPT ![p] = "loop"]
    /\ UNCHANGED <<lrVars, batchVars, launchVars, outDir, saved, bootVars, pg, trial_no,
                   out_file, loopVars, returned, arrived, histVars>>

\* lines 362-387: clip, optimizer step, iter_num += 1, the termination test
FinishIteration(p) ==
    /\ steps' = [steps EXCEPT ![p] = @ + 1]
    /\ iter_num' = [iter_num EXCEPT ![p] = @ + 1]
    /\ pc' = [pc EXCEPT ![p] = IF LoopDone(iter_num[p] + 1, cfg.max_iters)
                                THEN "ret" ELSE "loop"]

\* lines 349-387: the micro-steps from micro-step `from` on, each setting the sync
\* flag (under DDP) and running forward and backward. The micro-steps without
\* gradient synchronisation are local to the process and run at once, and so does
\* the rest of the iteration after the last one. Under DDP a backward pass with the
\* flag set all-reduces the gradients: it waits for every rank's matching backward
\* pass (AllReduce).
RunMicroSteps(p, from) ==
    LET synced == IF ddp[p] THEN SyncStepsFrom(from, gas[p]) ELSE {}
        before == IF from = 0 THEN {} ELSE syncSteps[p]
    IN IF synced # {}
       THEN LET m == Min(synced)
            IN /\ sync' = [sync EXCEPT ![p] = TRUE]
               /\ fwd' = [fwd EXCEPT ![p] = @ + (m - from) + 1]
               /\ micro_step' = [micro_step EXCEPT ![p] = m]
               /\ arrived' = [arrived EXCEPT ![p] = @ + 1]
               /\ syncSteps' = [syncSteps EXCEPT ![p] = before \cup {m}]
               /\ pc' = [pc EXCEPT ![p] = "allreduce"]
               /\ UNCHANGED <<steps, iter_num>>
       ELSE /\ sync' = [sync EXCEPT ![p] = IF ddp[p] /\ from < gas[p] THEN FALSE ELSE @]
            /\ fwd' = [fwd EXCEPT ![p] = @ + (gas[p] - from)]
            /\ micro_step' = [micro_step EXCEPT ![p] = gas[p]]
            /\ syncSteps' = [syncSteps EXCEPT ![p] = before]
            /\ UNCHANGED arrived
            /\ FinishIteration(p)

\* lines 314-345 when the evaluation is due: estimate_loss, best_val_acc, the
\* checkpoint, the eval_only break
LoopEval(p) ==
    /\ pc[p] = "loop"
    /\ EvalDue(iter_num[p], cfg.eval_interval, master_process[p])
    /\ HasSlides(val_slides)
    /\ \E acc \in 0 .. MaxAcc :
         LET improves == Improves(acc, best_val_acc[p], cfg.always_save_checkpoint)
             saves == improves /\ SavesAt(iter_num[p])
             best == IF improves THEN acc ELSE best_val_acc[p]
         IN /\ best_val_acc' = [best_val_acc EXCEPT ![p] = best]
            /\ bestSetAt' = [bestSetAt EXCEPT ![p] = IF improves THEN iter_num[p] ELSE @]
            /\ evals' = [evals EXCEPT ![p] = @ + 1]
            /\ maxSeen' = [maxSeen EXCEPT ![p] = IF acc > @ THEN acc ELSE @]
            /\ lastEval' = {[proc |-> p, iter_num |-> iter_num[p], val_acc |-> acc,
                             best_before |-> best_val_acc[p], wrote |-> saves]}
            /\ IF saves
               THEN /\ outDir' = outDir \cup {out_file[p][1]}
                    /\ saved' = [saved EXCEPT ![p] =
                                    {[iter_num |-> iter_num[p], best_val_acc |-> best]}]
                    /\ lastWrite' = {[proc |-> p, iter_num |-> iter_num[p],
                                      val_acc |-> acc,
                                      best_before |-> best_val_acc[p],
                                      file |-> out_file[p]]}
               ELSE UNCHANGED <<outDir, saved, lastWrite>>
    /\ pc' = [pc EXCEPT ![p] = IF EvalOnlyBreak(iter_num[p], cfg.eval_only)
                                THEN "ret" ELSE "micro"]
    /\ UNCHANGED <<lrVars, batchVars, launchVars, bootVars, pg, trial_no, out_file,
                   iter_num, micro_step, sync, returned, arrived, steps, fwd, syncs,
                   syncSteps>>

\* lines 320 and 178-180 when the evaluation is due and the validation split is
\* empty: get_batch('val') fails its assertion inside estimate_loss. Nothing in
\* objective catches it; study.optimize re-raises it on the master and the loop of
\* lines 454-458 lets through all but TrialPruned, so the process ends there,
\* before line 485.
EvalRaises(p) ==
    /\ pc[p] = "loop"
    /\ EvalDue(iter_num[p], cfg.eval_interval, master_process[p])
    /\ ~HasSlides(val_slides)
    /\ pc' = [pc EXCEPT ![p] = "raised"]
    /\ UNCHANGED <<lrVars, batchVars, launchVars, outDir, saved, bootVars, pg, trial_no,
                   out_file, loopVars, returned, arrived, histVars>>

\* lines 349-387 after an evaluation
MicroSteps(p) ==
    /\ pc[p] = "micro"
    /\ RunMicroSteps(p, 0)
    /\ UNCHANGED <<lrVars, batchVars, launchVars, outDir, saved, bootVars, pg,
                   trial_no, out_file, best_val_acc, returned, syncs, evals, maxSeen,
                   bestSetAt, lastEval, lastWrite>>

\* lines 314-387 when no evaluation is due: the eval_only break, or the micro-steps
LoopNoEval(p) ==
    /\ pc[p] = "loop"
    /\ ~EvalDue(iter_num[p], cfg.eval_interval, master_process[p])
    /\ IF EvalOnlyBreak(iter_num[p], cfg.eval_only)
       THEN /\ pc' = [pc EXCEPT ![p] = "ret"]
            /\ UNCHANGED <<sync, fwd, micro_step, arrived, syncSteps, steps, iter_num>>
       ELSE RunMicroSteps(p, 0)
    /\ UNCHANGED <<lrVars, batchVars, launchVars, outDir, saved, bootVars, pg,
                   trial_no, out_file, best_val_acc, returned, syncs, evals, maxSeen,
                   bestSetAt, lastEval, lastWrite>>

\* line 361 under DDP: the gradient all-reduce completes once every rank has
\* entered its matching synchronised backward pass; then the micro-steps that are
\* left, and the rest of the iteration
AllReduce(p) ==
    /\ pc[p] = "allreduce"
    /\ \A q \in Active : arrived[q] >= arrived[p]
    /\ syncs' = [syncs EXCEPT ![p] = @ + 1]
    /\ RunMicroSteps(p, micro_step[p] + 1)
    /\ UNCHANGED <<lrVars, batchVars, launchVars, outDir, saved, bootVars, pg,
                   trial_no, out_file, best_val_acc, returned, evals, maxSeen,
                   bestSetAt, lastEval, lastWrite>>

\* line 403: return best_val_acc
Return(p) ==
    /\ pc[p] = "ret"
    /\ returned' = [returned EXCEPT ![p] = <<best_val_acc[p]>>]
    /\ pc' = [pc EXCEPT ![p] = "trials"]
    /\ UNCHANGED <<lrVars, batchVars, launchVars, outDir, saved, bootVars, pg, trial_no, out_file, loopVars,
                   arrived, histVars>>

\* lines 460-485: after the last trial: the study report, destroy_process_group
Finish(p) ==
    /\ pc[p] = "trials"
    /\ trial_no[p] >= cfg.n_trials
    /\ pg' = [pg EXCEPT ![p] = IF ddp[p] THEN "destroyed" ELSE @]
    /\ pc' = [pc EXCEPT ![p] = "exit"]
    /\ UNCHANGED <<lrVars, batchVars, launchVars, outDir, saved, bootVars, trial_no, out_file, loopVars,
                   returned, arrived, histVars>>

Next ==
    \E p \in Procs :
        \/ Bootstrap(p)
        \/ SetupStudy(p)
        \/ StartTrial(p)
        \/ Suggest(p)
        \/ LoopEval(p)
        \/ LoopNoEval(p)
        \/ MicroSteps(p)
        \/ AllReduce(p)
        \/ Return(p)
        \/ Finish(p)

Spec == Init /\ [][Next]_vars

\* The same launch over a validation split that may be empty.
InitRaise ==
    /\ Launch
    /\ val_slides \in {0, 1}

NextRaise ==
    \E p \in Procs :
        \/ Bootstrap(p)
        \/ SetupStudy(p)
        \/ StartTrial(p)
        \/ Suggest(p)
        \/ LoopEval(p)
        \/ EvalRaises(p)
        \/ LoopNoEval(p)
        \/ MicroSteps(p)
        \/ AllReduce(p)
        \/ Return(p)
        \/ Finish(p)

SpecRaise == InitRaise /\ [][NextRaise]_vars

\* ------------------------------------------------------- the training claims
InTrial(p) == pc[p] \in {"suggest", "loop", "micro", "allreduce", "ret"}
Booted(p) == pc[p] \notin {"absent", "boot"}
Masters == {p \in Active : Booted(p) /\ master_process[p]}

\* C1: with always_save_checkpoint false, a checkpoint is written at an iteration
\* only by the master, only when iter_num is a positive multiple of eval_interval,
\* and only when the accuracy just evaluated is strictly greater than best_val_acc
\* as it stood before the evaluation; a file has content only through such a write.
C1_CheckpointOnlyOnImprovement ==
    ~cfg.always_save_checkpoint =>
        /\ \A w \in lastWrite :
              /\ master_process[w.proc]
              /\ w.iter_num % cfg.eval_interval = 0
              /\ w.iter_num > 0
              /\ w.val_acc > w.best_before
        /\ \A p \in Active : saved[p] # {} => \E w \in lastWrite : w.proc = p

C1_Witness ==
    /\ ~cfg.always_save_checkpoint
    /\ lastWrite # {}
    /\ \E e \in lastEval : e.iter_num > 0 /\ e.val_acc = e.best_before /\ ~e.wrote

C3_BestIsMaxSeen ==
    \A p \in Active :
        (master_process[p] /\ cfg.init_from = "scratch" /\ InTrial(p)) =>
            /\ best_val_acc[p] = maxSeen[p]
            /\ returned[p] # <<>> => returned[p][1] = maxSeen[p]

\* C6, as claimed: a process runs in DDP mode exactly when RANK is set; under DDP
\* the process group is initialised before the first trial starts and destroyed
\* only after the rank's last trial has returned; without DDP it is neither.
PgLifetime ==
    \A p \in Active :
        /\ (ddp[p] /\ (trial_no[p] > 0 \/ pc[p] = "trials")) => pg[p] # "none"
        /\ (ddp[p] /\ InTrial(p)) => pg[p] = "initialised"
        /\ pg[p] = "destroyed" =>
              /\ ddp[p] /\ pc[p] = "exit"
              /\ trial_no[p] = cfg.n_trials /\ returned[p] # <<>>
        /\ (Booted(p) /\ ~ddp[p]) => pg[p] = "none"
        /\ (pc[p] = "exit" /\ ddp[p]) => pg[p] = "destroyed"

C6_Original ==
    /\ \A p \in Active : Booted(p) => (ddp[p] <=> env[p] # <<>>)
    /\ PgLifetime

\* C6, amended: a process runs in DDP mode exactly when RANK is set to a value
\* other than -1 (RANK=-1 is the same as no RANK); the rest as claimed.
C6_Amended ==
    /\ \A p \in Active : Booted(p) => (ddp[p] <=> (env[p] # <<>> /\ env[p][1] # -1))
    /\ PgLifetime

C6_Witness ==
    /\ \E p \in Active : ddp[p] /\ pg[p] = "destroyed" /\ returned[p] # <<>>
    /\ nprocs > 1

\* what C7 says of the master and of the other processes, but for the value a
\* non-master trial returns
MasterOnly ==
    /\ Cardinality(Masters) <= 1
    /\ (\A p \in Active : Booted(p)) => Cardinality(Masters) = 1
    /\ \A p \in Masters : ~ddp[p] \/ RankOf(env[p]) = 0
    /\ madeDir \subseteq Masters
    /\ study \subseteq Masters
    /\ \A e \in lastEval : e.proc \in Masters
    /\ \A w \in lastWrite : w.proc \in Masters /\ w.file # <<>>
    /\ \A p \in Active \ Masters :
          /\ out_file[p] = <<>>
          /\ evals[p] = 0
          /\ bestSetAt[p] = -1
          /\ saved[p] = {}

\* C7, as claimed: exactly one master, which alone creates out_dir and the study,
\* computes a checkpoint path, evaluates, updates best_val_acc and writes
\* checkpoints; a non-master process returns best_val_acc = 0 from every trial.
C7_Original ==
    /\ MasterOnly
    /\ \A p \in Active \ Masters : returned[p] # <<>> => returned[p][1] = 0

\* C7, amended: a non-master process returns from every trial the best_val_acc the
\* trial started with: 0 from scratch, the loaded checkpoint's on resume.
C7_Amended ==
    /\ MasterOnly
    /\ \A p \in Active \ Masters :
          /\ InTrial(p) => best_val_acc[p] = InitialBest(cfg, ckpt)
          /\ returned[p] # <<>> => returned[p][1] = InitialBest(cfg, ckpt)

C7_Witness ==
    \E p \in Active :
        /\ Booted(p) /\ ~master_process[p]
        /\ returned[p] # <<>> /\ returned[p][1] > 0
        /\ \E q \in Masters : evals[q] > 0

\* C8: a trial started from scratch with eval_only false performs exactly
\* max_iters optimizer steps before its loop ends.
C8_MaxItersSteps ==
    \A p \in Active :
        (pc[p] = "ret" /\ cfg.init_from = "scratch" /\ ~cfg.eval_only) =>
            steps[p] = cfg.max_iters

\* C9: with eval_only no trial performs a forward/backward pass or an optimizer
\* step, from scratch or resumed, and no trial follows the first evaluation.
C9_EvalOnlyExits ==
    cfg.eval_only =>
        \A p \in Active : fwd[p] = 0 /\ steps[p] = 0 /\ trial_no[p] <= 1

Raised == {p \in Active : pc[p] = "raised"}
Gone(q) == pc[q] \in {"raised", "exit"}

\* p waits at a collective for a rank that has ended without entering it
Blocked(p) ==
    \/ /\ pc[p] = "allreduce"
       /\ \E q \in Active : Gone(q) /\ arrived[q] < arrived[p]
    \/ /\ pc[p] = "suggest" /\ ddp[p]
       /\ \E q \in Active : Gone(q) /\ trial_no[q] < trial_no[p]

\* C12, while no trial has raised: under DDP every rank calls objective exactly
\* n_trials times before it ends, ranks inside the training loop are in the same
\* objective call and meet at a gradient synchronisation in the same iteration
\* of it, and no rank waits for a rank that has ended.
C12_SameTrials ==
    Raised = {} =>
        \A p \in Active : ddp[p] =>
            /\ trial_no[p] <= cfg.n_trials
            /\ pc[p] = "exit" => trial_no[p] = cfg.n_trials
            /\ \A q \in Active :
                  (pc[p] \in {"loop", "micro", "allreduce", "ret"}
                     /\ pc[q] \in {"loop", "micro", "allreduce", "ret"}) =>
                      trial_no[p] = trial_no[q]
            /\ \A q \in Active :
                  (pc[p] = "allreduce" /\ pc[q] = "allreduce"
                     /\ arrived[p] = arrived[q]) =>
                      iter_num[p] = iter_num[q]
            /\ ~Blocked(p)

\* C12, once a trial has raised on a rank: no other rank is left blocked.
C12_NotBlocked ==
    Raised # {} => \A p \in Active : ddp[p] => ~Blocked(p)

\* C12: under DDP with no trial raising, every rank calls objective exactly
\* n_trials times, so the k-th objective call of every rank belongs to the same
\* trial and no rank is left waiting in a trial another rank never enters; and if
\* a trial raises on one rank, the other ranks are not left blocked.
C12_TrialCoordination ==
    /\ C12_SameTrials
    /\ C12_NotBlocked

\* ================================================================= get_lr
\* math.cos(math.pi * p / q) in thousandths, for q a divisor of 60: the rows are
\* cos(pi * k / 60), k = 0 .. 60, rounded to three decimals.
CosTable ==
    << 1000, 999, 995, 988, 978, 966, 951, 934, 914, 891,
       866, 839, 809, 777, 743, 707, 669, 629, 588, 545,
       500, 454, 407, 358, 309, 259, 208, 156, 105, 52,
       0, -52, -105, -156, -208, -259, -309, -358, -407, -454,
       -500, -545, -588, -629, -669, -707, -743, -777, -809, -839,
       -866, -891, -914, -934, -951, -966, -978, -988, -995, -999,
       -1000 >>

\* (q divides 60 for every q <= 6, which covers lr_decay_iters - warmup_iters here)
CosPi(p, q) == CosTable[((p * 60) \div q) + 1]

\* A returned learning rate is the exact fraction num / den, den > 0; a raised
\* exception is its name.
Rate(n, d) == [kind |-> "ok", num |-> n, den |-> d]
Raise(e) == [kind |-> e, num |-> 0, den |-> 1]

\* lines 193-204, with coeff = 0.5 * (1.0 + cos) kept as (1000 + cos) / 2000
\* (variant: coeff = 1.0 + cos, the factor 0.5 dropped)
GetLrNoHalf(c, i) ==
    IF i < c.warmup_iters
    THEN Rate(c.learning_rate * i, c.warmup_iters)
    ELSE IF i > c.lr_decay_iters
    THEN Rate(c.min_lr, 1)
    ELSE IF c.lr_decay_iters - c.warmup_iters = 0
    THEN Raise("ZeroDivisionError")
    ELSE LET p == i - c.warmup_iters
             q == c.lr_decay_iters - c.warmup_iters
         IN Rate(1000 * c.min_lr
                   + (1000 + CosPi(p, q)) * (c.learning_rate - c.min_lr),
                 1000)
GetLr(c, i) ==
    IF i < c.warmup_iters
    THEN Rate(c.learning_rate * i, c.warmup_iters)
    ELSE IF i > c.lr_decay_iters
    THEN Rate(c.min_lr, 1)
    ELSE IF c.lr_decay_iters - c.warmup_iters = 0
    THEN Raise("ZeroDivisionError")
    ELSE LET p == i - c.warmup_iters
             q == c.lr_decay_iters - c.warmup_iters
         IN IF ~(0 <= p /\ p <= q)
            THEN Raise("AssertionError")
            ELSE Rate(2000 * c.min_lr
                        + (1000 + CosPi(p, q)) * (c.learning_rate - c.min_lr),
                      2000)

LrConfigs ==
    [ learning_rate : 0 .. MaxLr,
      min_lr : 0 .. MaxLr,
      warmup_iters : 0 .. MaxWarmup,
      lr_decay_iters : 0 .. MaxDecayIters ]

InitLr ==
    /\ TrainOff
    /\ BatchIdle
    /\ lr_cfg \in LrConfigs
    /\ lr_it = 0
    /\ lr_out = {}
    /\ lr_prev = {}

\* line 314: lr = get_lr(iter_num), for the iteration numbers in turn
CallGetLr ==
    /\ lr_it <= lr_cfg.lr_decay_iters + 2
    /\ lr_out' = {[it |-> lr_it, lr |-> GetLr(lr_cfg, lr_it)]}
    /\ lr_prev' = lr_out
    /\ lr_it' = lr_it + 1
    /\ UNCHANGED <<lr_cfg, trainVars, batchVars>>

NextLr == CallGetLr

SpecLr == InitLr /\ [][NextLr]_vars

\* comparisons of exact fractions with positive denominators
RatLeq(a, b) == a.num * b.den <= b.num * a.den
RatEq(a, b) == a.num * b.den = b.num * a.den
RatInt(n) == Rate(n, 1)

C11_GetLrNeverRaises ==
    (0 < lr_cfg.warmup_iters /\ lr_cfg.warmup_iters <= lr_cfg.lr_decay_iters) =>
        \A c \in lr_out : c.lr.kind = "ok"

\* ============================================== load_wsi_features, get_batch
n_classes == 17

\* A file name is its dot-separated parts: "s1.b.pt" is <<"s1", "b", "pt">>.
FileNames == {<<"s1", "pt">>, <<"s1", "b", "pt">>, <<"s2", "pt">>}

\* A *.pt file: its name, the classes in data['labels'], the number of rows of
\* data['features']. Row r of file f is the pair <<f.name, r>>.
Files == [name : FileNames, labels : {{0}, {1}, {0, 1}}, nrows : 0 .. MaxRows]

\* glob's results: the files of a directory, each name once, in any order
Listings ==
    {<<>>}
    \cup {<<f>> : f \in Files}
    \cup {l \in {<<f, g>> : f \in Files, g \in Files} : l[1].name # l[2].name}

\* line 101: os.path.basename(file).split('.')[0]
SlideOf(name) == name[1]

\* line 102: np.unique(data['labels'])[0], the smallest class of the file
LabelOf(f) == Min(f.labels)

\* line 105: np.array of (slide, label) pairs is an array of strings
LabelStr(l) == ToString(l)
\* line 223: np.array(labels, dtype = np.int64) parses the strings back
LabelInt(str) == CHOOSE l \in 0 .. (n_classes - 1) : ToString(l) = str

\* lines 99-104: features[slide] after the loop: the rows of the last file of the
\* listing with that slide name
LastWithSlide(files, slide) ==
    files[Max({k \in 1 .. Len(files) : SlideOf(files[k].name) = slide})]

FeaturesOf(f) == [r \in 1 .. f.nrows |-> <<f.name, r>>]

\* lines 95-107
LoadWsiFeatures(files) ==
    LET slides == {SlideOf(files[k].name) : k \in 1 .. Len(files)}
        features == [sl \in slides |-> FeaturesOf(LastWithSlide(files, sl))]
    IN [ features |-> features,
         slides_labels |-> [k \in 1 .. Len(files) |->
                               <<SlideOf(files[k].name), LabelStr(LabelOf(files[k]))>>],
         n_slides |-> Len(files),
         len_features |-> [sl \in slides |-> Len(features[sl])] ]

InitBatch ==
    /\ TrainOff
    /\ LrIdle
    /\ data_dir \in Listings
    /\ batch_cfg \in [batch_size : 1 .. MaxBatch, block_size : 1 .. MaxBlock]
    /\ data = {}
    /\ batch = {}

\* lines 136-137: train_data = load_wsi_features(data_dir)
Load ==
    /\ data = {}
    /\ data' = {LoadWsiFeatures(data_dir)}
    /\ UNCHANGED <<data_dir, batch_cfg, batch, trainVars, lrVars>>

\* line 214: assert n_slides > 0
GetBatchAsserts ==
    /\ \E d \in data : d.n_slides <= 0
    /\ batch' = {[kind |-> "AssertionError"]}
    /\ UNCHANGED <<data_dir, batch_cfg, data, trainVars, lrVars>>

\* lines 216-230: np.random.choice draws batch_size slide indices, then for each
\* drawn slide block_size row indices, all with replacement; choice(0, ...) raises.
GetBatch ==
    \E d \in data :
        /\ d.n_slides > 0
        /\ \E batch_indices \in
                 [1 .. batch_cfg.batch_size -> 0 .. (Len(d.slides_labels) - 1)] :
             LET slides == [i \in 1 .. batch_cfg.batch_size |->
                               d.slides_labels[batch_indices[i] + 1][1]]
                 labels == [i \in 1 .. batch_cfg.batch_size |->
                               d.slides_labels[batch_indices[i] + 1][2]]
             IN IF \E i \in 1 .. batch_cfg.batch_size : d.len_features[slides[i]] = 0
                THEN batch' = {[kind |-> "ValueError"]}
                ELSE \E sample_indices \in
                         [1 .. batch_cfg.batch_size ->
                             [1 .. batch_cfg.block_size -> 0 .. (MaxRows - 1)]] :
                       /\ \A i \in 1 .. batch_cfg.batch_size :
                            \A j \in 1 .. batch_cfg.block_size :
                               sample_indices[i][j] < d.len_features[slides[i]]
                       /\ batch' =
                            {[ kind |-> "ok",
                               batch_indices |-> batch_indices,
                               sample_indices |-> sample_indices,
                               x |-> [i \in 1 .. batch_cfg.batch_size |->
                                        [j \in 1 .. batch_cfg.block_size |->
                                            d.features[slides[i]][sample_indices[i][j] + 1]]],
                               y |-> [i \in 1 .. batch_cfg.batch_size |->
                                        LabelInt(labels[i])] ]}
        /\ UNCHANGED <<data_dir, batch_cfg, data, trainVars, lrVars>>

NextBatch ==
    \/ Load
    \/ GetBatchAsserts
    \/ GetBatch

SpecBatch == InitBatch /\ [][NextBatch]_vars

\* C5: for a split with at least one slide and at least one row per slide,
\* get_batch returns batch_size bags of block_size rows and batch_size labels;
\* every slide index and row index drawn is in range; all rows of bag i come from
\* one slide, the i-th slide drawn, and y[i] is that slide's label.
DataOk ==
    /\ Len(data_dir) > 0
    /\ \A k \in 1 .. Len(data_dir) : data_dir[k].nrows > 0

C5_Batch ==
    (DataOk /\ data # {}) =>
        \A b \in batch :
            /\ b.kind = "ok"
            /\ Len(b.x) = batch_cfg.batch_size
            /\ Len(b.y) = batch_cfg.batch_size
            /\ \A i \in 1 .. batch_cfg.batch_size :
                  /\ b.batch_indices[i] \in 0 .. (Len(data_dir) - 1)
                  /\ Len(b.x[i]) = batch_cfg.block_size
                  /\ \E k \in 1 .. Len(data_dir) :
                        /\ \A j \in 1 .. batch_cfg.block_size :
                              /\ b.sample_indices[i][j] \in 0 .. (data_dir[k].nrows - 1)
                              /\ b.x[i][j] =
                                    <<data_dir[k].name, b.sample_indices[i][j] + 1>>
                        /\ b.y[i] = LabelOf(data_dir[k])

====
